---- MODULE Spec2Model ----
(***************************************************************************)
(* A model of scripts/ai_doc_generator.py: the documentation decision      *)
(* engine (GitHubWikiAPI + AIDocumentationGenerator + main).               *)
(*                                                                         *)
(* Text is modelled as a sequence of lexemes.  The lexemes that the code   *)
(* itself inspects are kept apart:                                         *)
(*   "FENCE"  the three backticks                                          *)
(*   "json"   the word json (the fence label; prose anywhere else)         *)
(*   "NL"     a newline         "SP"  any other whitespace                 *)
(*   "LB" "RB"  the braces of a JSON object, "NUM" a JSON number           *)
(*   member lexemes (see Members): one complete  "key": value  of a JSON   *)
(*   object, separators included                                           *)
(*   " " "/" "-" and words: the characters of a page title                 *)
(***************************************************************************)
EXTENDS Integers, Sequences, FiniteSets, TLC

\* ------------------------------------------------------------------ bounds
\* longest advisory text enumerated in the extraction specification
MaxLen == 4

\* ------------------------------------------------------------ str helpers
WS == {"SP", "NL"}

RECURSIVE LStrip(_)
LStrip(s) == IF s # <<>> /\ Head(s) \in WS THEN LStrip(Tail(s)) ELSE s

RECURSIVE RStrip(_)
RStrip(s) ==
    IF s # <<>> /\ s[Len(s)] \in WS THEN RStrip(SubSeq(s, 1, Len(s) - 1)) ELSE s

\* str.strip()
Strip(s) == RStrip(LStrip(s))

\* str.startswith(p)
StartsWith(s, p) == Len(s) >= Len(p) /\ SubSeq(s, 1, Len(p)) = p

\* str.replace(pat, rep): every non-overlapping occurrence, left to right
RECURSIVE Replace(_, _, _)
Replace(s, pat, rep) ==
    IF s = <<>> THEN <<>>
    ELSE IF StartsWith(s, pat)
         THEN rep \o Replace(SubSeq(s, Len(pat) + 1, Len(s)), pat, rep)
         ELSE <<Head(s)>> \o Replace(Tail(s), pat, rep)

SetMin(S) == CHOOSE x \in S : \A y \in S : x <= y
SetMax(S) == CHOOSE x \in S : \A y \in S : x >= y

\* ---------------------------------------------------- markdown fences
FenceJson == <<"FENCE", "json">>

\* The positions p of the newline matched by  \s*\n  when the labelled
\* fence opens at i: everything between the label and p is whitespace.
OpenNewlines(s, i) ==
    { p \in (i + 2)..Len(s) :
        /\ s[p] = "NL"
        /\ \A k \in (i + 2)..p : s[k] \in WS }

\* The positions q >= from of a newline directly followed by a fence.
CloseAt(s, from) ==
    { q \in from..(Len(s) - 1) : s[q] = "NL" /\ s[q + 1] = "FENCE" }

\* Opening newlines from which the pattern can be completed.
Feasible(s, i) == { p \in OpenNewlines(s, i) : CloseAt(s, p + 1) # {} }

\* Start positions at which  ```json\s*\n(.*?)\n```  matches.
MatchStarts(s) ==
    { i \in 1..(Len(s) - 1) :
        /\ s[i] = "FENCE" /\ s[i + 1] = "json"
        /\ Feasible(s, i) # {} }

\* re.search(r'```json\s*\n(.*?)\n```', s, re.DOTALL): leftmost start,
\* greedy \s* (the last feasible newline), lazy body (the first closer).
JsonMatchFound(s) == MatchStarts(s) # {}

JsonMatchGroup(s) ==
    LET i == SetMin(MatchStarts(s))
        p == SetMax(Feasible(s, i))
        q == SetMin(CloseAt(s, p + 1))
    IN  SubSeq(s, p + 1, q - 1)

\* re.sub(r'^```[^\n]*\n', '', s): the opening line of a fence at the
\* very start of the text.
SubOpenFence(s) ==
    LET nls == { n \in 2..Len(s) : s[n] = "NL" }
    IN  IF s # <<>> /\ s[1] = "FENCE" /\ nls # {}
        THEN SubSeq(s, SetMin(nls) + 1, Len(s))
        ELSE s

\* re.sub(r'\n```$', '', s): $ is the end of the text, or the place
\* before a newline that ends the text.
SubCloseFence(s) ==
    LET n == Len(s)
    IN  IF n >= 2 /\ s[n - 1] = "NL" /\ s[n] = "FENCE"
        THEN SubSeq(s, 1, n - 2)
        ELSE IF n >= 3 /\ s[n - 2] = "NL" /\ s[n - 1] = "FENCE" /\ s[n] = "NL"
             THEN SubSeq(s, 1, n - 3) \o <<"NL">>
             ELSE s

\* a cleaning that leaves the fences in place
CleanResponse_NoFence(raw) == Strip(raw)

\* Lines 340-355: the cleaning of the advisory response.
CleanResponse(raw) ==
    LET c == Strip(raw)
    IN  IF StartsWith(c, FenceJson)
        THEN IF JsonMatchFound(c)
             THEN Strip(JsonMatchGroup(c))
             ELSE Strip(Replace(Replace(c, FenceJson, <<>>), <<"FENCE">>, <<>>))
        ELSE IF StartsWith(c, <<"FENCE">>)
             THEN Strip(SubCloseFence(SubOpenFence(c)))
             ELSE c

\* ------------------------------------------------------------ page titles
\* A title is a sequence of characters; words are kept whole.
TitleA == <<"A">>
TitleB == <<"B">>
TitleDS == <<"Database", " ", "Schema">>
TitleXY == <<"X", "/", "Y">>
\* line 368
FallbackTitle == <<"Data", "-", "Changes", "-", "Fallback">>

\* ------------------------------------------------------------- json.loads
\* What json.loads returns is modelled by one record shape.  kind says
\* whether the value is a dict at all; a key that the dict lacks is
\* "absent" (strings) or has its has_* flag FALSE.
EmptyDict ==
    [ kind |-> "dict",
      needs_documentation |-> "absent",
      reasoning |-> "absent",
      changes_summary |-> "absent",
      has_ds |-> FALSE,            \* key documentation_strategy
      action |-> "absent",
      has_targets |-> FALSE,       \* key target_pages
      target_pages |-> <<>>,
      content_type |-> "absent",
      priority |-> "absent",
      has_pr |-> FALSE,            \* key page_recommendations
      has_primary |-> FALSE,       \* key primary_page
      primary_page |-> <<>> ]

\* a JSON value that is not an object (a number)
ScalarValue == [EmptyDict EXCEPT !.kind = "scalar"]

\* members  "documentation_strategy": {...}  and the object each carries
DsMembers ==
    { "ds_new", "ds_upd", "ds_updDS", "ds_updXY", "ds_app", "ds_multi",
      "ds_multi1", "ds_none", "ds_new0", "ds_bogus", "ds_noact", "ds_notargets" }

DsAction(m) ==
    CASE m \in {"ds_new", "ds_new0"} -> "create_new_page"
      [] m \in {"ds_upd", "ds_updDS", "ds_updXY"} -> "update_existing_page"
      [] m = "ds_app" -> "append_to_page"
      [] m \in {"ds_multi", "ds_multi1", "ds_none"} -> "update_multiple_pages"
      [] m = "ds_bogus" -> "delete_page"
      [] m = "ds_notargets" -> "create_new_page"
      [] OTHER -> "absent"

DsHasTargets(m) == m # "ds_notargets"

DsTargets(m) ==
    CASE m \in {"ds_new", "ds_upd", "ds_app", "ds_bogus", "ds_noact", "ds_multi1"}
            -> <<TitleA>>
      [] m = "ds_updDS" -> <<TitleDS>>
      [] m = "ds_updXY" -> <<TitleXY>>
      [] m = "ds_multi" -> <<TitleA, TitleB>>
      [] OTHER -> <<>>

DsContentType(m) == IF m \in {"ds_new", "ds_multi"} THEN "schema" ELSE "absent"
DsPriority(m) == IF m \in {"ds_new", "ds_multi"} THEN "high" ELSE "absent"

\* every member lexeme of a JSON object
Members == DsMembers \cup {"nd_t", "nd_f", "rs", "cs", "pr_B", "pr_0"}

\* dict[key] = value for the member m (a later duplicate key wins)
ApplyMember(d, m) ==
    CASE m = "nd_t" -> [d EXCEPT !.needs_documentation = "true"]
      [] m = "nd_f" -> [d EXCEPT !.needs_documentation = "false"]
      [] m = "rs" -> [d EXCEPT !.reasoning = "Test"]
      [] m = "cs" -> [d EXCEPT !.changes_summary = "New column"]
      [] m = "pr_B" -> [d EXCEPT !.has_pr = TRUE, !.has_primary = TRUE,
                                 !.primary_page = TitleB]
      [] m = "pr_0" -> [d EXCEPT !.has_pr = TRUE, !.has_primary = FALSE,
                                 !.primary_page = <<>>]
      [] OTHER -> [d EXCEPT !.has_ds = TRUE,
                            !.action = DsAction(m),
                            !.has_targets = DsHasTargets(m),
                            !.target_pages = DsTargets(m),
                            !.content_type = DsContentType(m),
                            !.priority = DsPriority(m)]

RECURSIVE DictOf(_, _)
DictOf(d, ms) == IF ms = <<>> THEN d ELSE DictOf(ApplyMember(d, Head(ms)), Tail(ms))

IsWs(t) == t \in WS
IsNotWs(t) == t \notin WS

\* JSON allows whitespace around every token of a document.
JsonTokens(s) == SelectSeq(s, IsNotWs)

\* json.loads accepts s: an object whose members are well formed, or a number
JsonValid(s) ==
    LET t == JsonTokens(s)
    IN  \/ t = <<"NUM">>
        \/ /\ Len(t) >= 2
           /\ t[1] = "LB"
           /\ t[Len(t)] = "RB"
           /\ \A k \in 2..(Len(t) - 1) : t[k] \in Members

\* json.loads(s) for an s it accepts
JsonLoads(s) ==
    LET t == JsonTokens(s)
    IN  IF t = <<"NUM">> THEN ScalarValue
        ELSE DictOf(EmptyDict, SubSeq(t, 2, Len(t) - 1))

\* lines 363-372: the strategy returned on json.JSONDecodeError
FallbackReasoning == "Fallback analysis - assuming documentation needed"

\* a fallback that names no target page
FallbackStrategy_NoTarget ==
    [EmptyDict EXCEPT
        !.needs_documentation = "true",
        !.reasoning = FallbackReasoning,
        !.has_ds = TRUE,
        !.action = "create_new_page",
        !.has_targets = TRUE,
        !.target_pages = <<>>,
        !.content_type = "mixed",
        !.priority = "medium"]

FallbackStrategy ==
    [EmptyDict EXCEPT
        !.needs_documentation = "true",
        !.reasoning = FallbackReasoning,
        !.has_ds = TRUE,
        !.action = "create_new_page",
        !.has_targets = TRUE,
        !.target_pages = <<FallbackTitle>>,
        !.content_type = "mixed",
        !.priority = "medium"]

\* ------------------------------------------------------- advisory results
\* What _call_ai_service gives its caller: the text of a 200 response,
\* None for any other status, or an exception out of requests.post /
\* response.json() (neither is guarded in _call_openai/_call_anthropic).
TextOut(t) == [status |-> "text", text |-> t]
NoneOut == [status |-> "none", text |-> <<>>]
RaiseOut == [status |-> "raise", text |-> <<>>]

\* history only: how an advisory call ended, as the log of calls keeps it
Got(r) ==
    IF r.status # "text" THEN r.status
    ELSE IF r.text = <<>> THEN "empty"
    ELSE IF \E k \in 1..Len(r.text) : r.text[k] = "NOT_RELEVANT" THEN "not_relevant"
    ELSE "text"

Call(kind, page, r) == [kind |-> kind, page |-> page, got |-> Got(r)]

\* lines 332-372, after the advisory call returned r: the value returned
\* to main, or the exception that leaves the method.  None has no
\* .strip(): AttributeError, which  except json.JSONDecodeError  lets pass.
PlannerResult(r) ==
    IF r.status # "text"
    THEN [raised |-> TRUE, strategy |-> EmptyDict]
    ELSE LET c == CleanResponse(r.text)
         IN  IF JsonValid(c)
             THEN [raised |-> FALSE, strategy |-> JsonLoads(c)]
             ELSE [raised |-> FALSE, strategy |-> FallbackStrategy]

\* ------------------------------------------------------------- page store
\* line 132: the file that get_page reads for a title
ReadFile(title) == Replace(title, <<" ">>, <<"-">>)

\* line 145: the file that create_or_update_page writes for a title
WriteFile(title) == Replace(Replace(title, <<" ">>, <<"-">>), <<"/">>, <<"-">>)

HomeFile == <<"Home">>

Titles == {TitleA, TitleB, TitleDS, TitleXY, FallbackTitle}

\* every file name (without .md) a run can touch
FileNames ==
    {ReadFile(t) : t \in Titles} \cup {WriteFile(t) : t \in Titles} \cup {HomeFile}

NoFile == [exists |-> FALSE, content |-> <<>>]
File(c) == [exists |-> TRUE, content |-> c]

EmptyTree == [f \in FileNames |-> NoFile]

\* page texts found in the wiki before the run
OldA == <<"CREATE TABLE", "users">>
OldB == <<"Welcome">>

\* lines 89-96
HomeContent == <<"#", "Welcome to the Documentation Wiki">>

\* the wikis a run may find
InitialWikis ==
    { [f \in FileNames |->
          IF f = <<"A">> THEN a ELSE IF f = <<"B">> THEN b ELSE NoFile] :
      a \in {NoFile, File(OldA), File(<<>>)}, b \in {NoFile, File(OldB)} }

\* lines 426 and 478: datetime.now(), formatted
Today == "2024-05-01"
Now == "2024-05-01 10:00:00"

\* What the environment decides about one create_or_update_page call:
\*   "ok"          every step succeeds
\*   "open_fail"   open(page_file, 'w') raises: nothing is written
\*   "commit_fail" git add / git commit fails (check=True raises)
\*   "push_fail"   git push returns non-zero
WriteOutcomes == {"ok", "open_fail", "commit_fail", "push_fail"}

\* lines 141-178.  st is the store [files, head, remote]: the working tree
\* of the clone, its last commit, and the pushed wiki.  content is what
\* the caller passes: a text, or None (f.write(None) raises TypeError
\* after open(..., 'w') has truncated the file).
WriteResult(st, title, content, w) ==
    LET fn == WriteFile(title)
        wr == [op |-> "write", file |-> fn]
        push == [op |-> "push", file |-> fn]
    IN  IF w = "open_fail"
        THEN [st |-> st, ok |-> FALSE, ops |-> <<wr>>]
        ELSE IF content.status # "text"
        THEN [st |-> [st EXCEPT !.files[fn] = File(<<>>)],
              ok |-> FALSE, ops |-> <<wr>>]
        ELSE IF w = "commit_fail"
        THEN [st |-> [st EXCEPT !.files[fn] = File(content.text)],
              ok |-> FALSE, ops |-> <<wr>>]
        ELSE LET committed == [st.head EXCEPT ![fn] = File(content.text)]
             IN  IF w = "push_fail"
                 THEN [st |-> [st EXCEPT !.files[fn] = File(content.text),
                                         !.head = committed],
                       ok |-> FALSE, ops |-> <<wr, push>>]
                 ELSE [st |-> [files |-> [st.files EXCEPT ![fn] = File(content.text)],
                               head |-> committed,
                               remote |-> committed],
                       ok |-> TRUE, ops |-> <<wr, push>>]

\* lines 129-139: the text of the page, or None ("none") when the file is
\* missing or reading it raised
ReadOutcomes == {"ok", "error"}

GetPage(files, title, rd) ==
    LET f == files[ReadFile(title)]
    IN  IF rd = "ok" /\ f.exists THEN TextOut(f.content) ELSE NoneOut

\* Python truthiness of an Optional[str]
Truthy(r) == r.status = "text" /\ r.text # <<>>

\* ------------------------------------------------------ strategy executor
\* strategy.get('reasoning', 'Data changes detected')
ReasoningOf(strategy) ==
    IF strategy.reasoning = "absent" THEN "Data changes detected"
    ELSE strategy.reasoning

\* strategy['documentation_strategy'].get('content_type', 'mixed')
ContentTypeOf(strategy) ==
    IF strategy.content_type = "absent" THEN "mixed" ELSE strategy.content_type

\* strategy.get('changes_summary', 'Data Changes')
SummaryOf(strategy) ==
    IF strategy.changes_summary = "absent" THEN "Data Changes"
    ELSE strategy.changes_summary

\* lines 429-439: page_header + content
NewPageContent(title, body, strategy) ==
    <<"#">> \o title
        \o <<"Created:", Today, "Trigger:", ReasoningOf(strategy),
             "Content Type:", ContentTypeOf(strategy), "---">>
        \o body

\* lines 481-490: the section appended to a page
AppendSection(body, strategy) ==
    <<"---", "## Update", Now, "-", SummaryOf(strategy)>> \o body

\* What one page operation of the executor yields: the store after it, the
\* value returned, whether an exception left it, the advisory calls and
\* store calls it made.
PageResult(w, merged, raised, calls, readOps) ==
    [st |-> w.st, ok |-> w.ok, raised |-> raised, merged |-> merged,
     calls |-> calls, ops |-> readOps \o w.ops]

\* lines 423-440
CreateNewPage(st, title, body, strategy, w) ==
    PageResult(WriteResult(st, title, TextOut(NewPageContent(title, body, strategy)), w),
               FALSE, FALSE, <<>>, <<>>)

\* an update for which a missing page is an error
UpdateExistingPage_NoCreate(st, title, body, strategy, rd, m, w) ==
    LET existing == GetPage(st.files, title, rd)
        rdop == <<[op |-> "read", file |-> ReadFile(title)]>>
        call == <<Call("merge", title, m)>>
    IN  IF ~Truthy(existing)
        THEN [st |-> st, ok |-> FALSE, raised |-> FALSE, merged |-> FALSE,
              calls |-> <<>>, ops |-> rdop]
        ELSE IF m.status = "raise"
        THEN [st |-> st, ok |-> FALSE, raised |-> TRUE, merged |-> TRUE,
              calls |-> call, ops |-> rdop]
        ELSE PageResult(WriteResult(st, title, m, w), TRUE, FALSE, call, rdop)

\* lines 442-471.  rd, m and w are the environment's answers to the read,
\* the merge advisory call and the write.
UpdateExistingPage(st, title, body, strategy, rd, m, w) ==
    LET existing == GetPage(st.files, title, rd)
        rdop == <<[op |-> "read", file |-> ReadFile(title)]>>
        call == <<Call("merge", title, m)>>
    IN  IF ~Truthy(existing)
        THEN LET c == CreateNewPage(st, title, body, strategy, w)
             IN  [c EXCEPT !.ops = rdop \o c.ops]
        ELSE IF m.status = "raise"
        THEN [st |-> st, ok |-> FALSE, raised |-> TRUE, merged |-> TRUE,
              calls |-> call, ops |-> rdop]
        ELSE PageResult(WriteResult(st, title, m, w), TRUE, FALSE, call, rdop)

\* lines 473-491
AppendToPage(st, title, body, strategy, rd, w) ==
    LET got == GetPage(st.files, title, rd)
        existing == IF Truthy(got) THEN got.text ELSE <<"#">> \o title
        rdop == <<[op |-> "read", file |-> ReadFile(title)]>>
    IN  PageResult(
            WriteResult(st, title, TextOut(existing \o AppendSection(body, strategy)), w),
            FALSE, FALSE, <<>>, rdop)

\* a dispatch that lets one more action through
KnownActions_Lenient ==
    {"create_new_page", "update_existing_page", "append_to_page",
     "update_multiple_pages", "delete_page"}

KnownActions ==
    {"create_new_page", "update_existing_page", "append_to_page", "update_multiple_pages"}

\* lines 399-413: the page operation the action selects
PageStep(action, st, title, body, strategy, rd, m, w) ==
    CASE action = "create_new_page" -> CreateNewPage(st, title, body, strategy, w)
      [] action = "append_to_page" -> AppendToPage(st, title, body, strategy, rd, w)
      [] OTHER -> UpdateExistingPage(st, title, body, strategy, rd, m, w)

\* ------------------------------------------------------ content classifier
\* Lines 236-262 lower-case the text and look for each keyword as a
\* substring.  At the grain of lexemes: the lexemes of this model that
\* contain, in any case, a keyword of the family.
SchemaLexemes == {"CREATE TABLE", "New column"}
ApiLexemes == {"POST /api/users"}
FlowLexemes == {"data pipeline"}

HasLexeme(content, L) == \E k \in 1..Len(content) : content[k] \in L

ContainsSchema(content) == HasLexeme(content, SchemaLexemes)
ContainsApi(content) == HasLexeme(content, ApiLexemes)
ContainsFlow(content) == HasLexeme(content, FlowLexemes)

\* ------------------------------------------------------- snapshot builder
\* the order in which os.walk lists the files
RECURSIVE SeqOfSet(_)
SeqOfSet(S) ==
    IF S = {} THEN <<>>
    ELSE LET x == CHOOSE y \in S : \A z \in S : Len(y) <= Len(z)
         IN  <<x>> \o SeqOfSet(S \ {x})

\* line 201: the page name of a file
PageNameOf(file) == Replace(file, <<"-">>, <<" ">>)

\* lines 209-217
PageInfo(file, content) ==
    [ filename |-> file,
      content |-> content,
      length |-> Len(content),
      has_schema_content |-> ContainsSchema(content),
      has_api_content |-> ContainsApi(content),
      has_data_flow_content |-> ContainsFlow(content) ]

EmptySnapshot ==
    [pages |-> <<>>, schema_pages |-> <<>>, api_pages |-> <<>>, data_flow_pages |-> <<>>]

\* a scan that starts over when a file cannot be read
AddPage_StartOver(snap, files, file, unreadable) ==
    IF file \in unreadable THEN EmptySnapshot
    ELSE LET c == files[file].content
             n == PageNameOf(file)
             app(list, yes) == IF yes THEN Append(list, n) ELSE list
         IN  [ pages |-> (n :> PageInfo(file, c)) @@ snap.pages,
               schema_pages |-> app(snap.schema_pages, ContainsSchema(c)),
               api_pages |-> app(snap.api_pages, ContainsApi(c)),
               data_flow_pages |-> app(snap.data_flow_pages, ContainsFlow(c)) ]

\* lines 200-228, one file: unreadable files are skipped
AddPage(snap, files, file, unreadable) ==
    IF file \in unreadable THEN snap
    ELSE LET c == files[file].content
             n == PageNameOf(file)
             app(list, yes) == IF yes THEN Append(list, n) ELSE list
         IN  [ pages |-> (n :> PageInfo(file, c)) @@ snap.pages,
               schema_pages |-> app(snap.schema_pages, ContainsSchema(c)),
               api_pages |-> app(snap.api_pages, ContainsApi(c)),
               data_flow_pages |-> app(snap.data_flow_pages, ContainsFlow(c)) ]

RECURSIVE BuildSnapshot(_, _, _, _)
BuildSnapshot(snap, files, walk, unreadable) ==
    IF walk = <<>> THEN snap
    ELSE BuildSnapshot(AddPage(snap, files, Head(walk), unreadable),
                       files, Tail(walk), unreadable)

\* lines 180-230
AnalyzeWikiStructure(files, unreadable) ==
    BuildSnapshot(EmptySnapshot, files,
                  SeqOfSet({f \in FileNames : files[f].exists}), unreadable)

\* ------------------------------------------------- what the advisor says
RelevanceOutcomes ==
    { TextOut(<<"RELEVANT">>),
      TextOut(<<"NOT_RELEVANT">>),
      TextOut(<<"NOT_RELEVANT", "SP", "extra", "SP", "text">>),
      TextOut(<<>>), NoneOut, RaiseOut }

DocBody == <<"## Summary", "POST /api/users">>

DocOutcomes ==
    { TextOut(DocBody),
      TextOut(<<"NO_DOCUMENTATION_NEEDED">>),
      TextOut(<<"SP", "NO_DOCUMENTATION_NEEDED", "NL">>),
      TextOut(<<>>), NoneOut, RaiseOut }

Merged == <<"# A", "merged text">>

MergeOutcomes == { TextOut(Merged), TextOut(<<>>), NoneOut, RaiseOut }

\* the response of test_json_parsing.py, lines 8-17
TestResponse ==
    <<"FENCE", "json", "NL", "LB", "NL", "SP", "nd_t", "NL", "SP", "rs", "NL",
      "SP", "ds_updDS", "NL", "RB", "NL", "FENCE">>

Obj(ms) == <<"LB">> \o ms \o <<"RB">>

StrategyTexts ==
    { Obj(<<"nd_t", "rs", d>>) : d \in DsMembers }
    \cup { Obj(<<"nd_t", "cs", "ds_app">>),
           Obj(<<"nd_t", "ds_new", "pr_B">>),
           Obj(<<"nd_t", "ds_multi", "pr_0">>),
           Obj(<<"nd_f", "rs", "ds_upd">>),
           Obj(<<"nd_t">>),
           Obj(<<>>),
           <<"NUM">>,
           <<"I", "SP", "think", "SP">> \o Obj(<<"nd_t", "ds_upd">>),
           <<>>,
           TestResponse,
           <<"FENCE", "json", "SP">> \o Obj(<<"nd_t", "ds_app">>) \o <<"FENCE">>,
           <<"FENCE", "NL">> \o Obj(<<"nd_t", "ds_new">>) \o <<"NL", "FENCE">> }

StrategyOutcomes == { TextOut(t) : t \in StrategyTexts } \cup {NoneOut, RaiseOut}

\* a test that takes only the bare word for the stop signal
NotRelevant_Exact(rel) ==
    ~Truthy(rel) \/ rel.text = <<"NOT_RELEVANT">>

\* line 585: not relevance_result or "NOT_RELEVANT" in relevance_result
NotRelevant(rel) ==
    ~Truthy(rel) \/ \E k \in 1..Len(rel.text) : rel.text[k] = "NOT_RELEVANT"

\* an analysis that repeats a relevance call that returned nothing
AnalyzeWithAi_Retry(rel, doc) ==
    LET c1 == <<Call("relevance", <<>>, rel)>>
        c2 == c1 \o <<Call("documentation", <<>>, doc)>>
    IN  IF rel.status = "raise"
        THEN [raised |-> TRUE, result |-> NoneOut, calls |-> c1]
        ELSE IF rel.status = "none"
        THEN [raised |-> FALSE, result |-> NoneOut, calls |-> c1 \o c1]
        ELSE IF NotRelevant(rel)
        THEN [raised |-> FALSE, result |-> NoneOut, calls |-> c1]
        ELSE IF doc.status = "raise"
        THEN [raised |-> TRUE, result |-> NoneOut, calls |-> c2]
        ELSE [raised |-> FALSE, result |-> doc, calls |-> c2]

\* lines 550-644: the value returned, whether an exception left the
\* method, and the advisory calls made
AnalyzeWithAi(rel, doc) ==
    LET c1 == <<Call("relevance", <<>>, rel)>>
        c2 == c1 \o <<Call("documentation", <<>>, doc)>>
    IN  IF rel.status = "raise"
        THEN [raised |-> TRUE, result |-> NoneOut, calls |-> c1]
        ELSE IF NotRelevant(rel)
        THEN [raised |-> FALSE, result |-> NoneOut, calls |-> c1]
        ELSE IF doc.status = "raise"
        THEN [raised |-> TRUE, result |-> NoneOut, calls |-> c2]
        ELSE [raised |-> FALSE, result |-> doc, calls |-> c2]

\* a test that does not know the sentinel
NoDocumentation_NoSentinel(d) == ~Truthy(d)

\* lines 742 and 786
NoDocumentation(d) ==
    ~Truthy(d) \/ Strip(d.text) = <<"NO_DOCUMENTATION_NEEDED">>

\* ------------------------------------------------------------------ state
VARIABLES
    pc,             \* where main() is
    outcome,        \* how the run ended ("running" until it has)
    dryRun,         \* args.dry_run
    hasToken,       \* GITHUB_TOKEN is set
    store,          \* [files, head, remote]: clone, its commit, the wiki
    documentation,  \* main's documentation
    strategy,       \* main's strategy
    snapshot,       \* main's wiki_analysis
    unread,         \* history: the files the scan could not read
    walk,           \* wiki_files: the file names os.walk listed
    todo,           \* the pages the executor works through
    idx,            \* the next page of todo
    execOk,         \* the executor's success so far
    report,         \* primary_page of the success message
    calls,          \* history: the advisory calls made, in order
    storeOps,       \* history: the page store calls made, in order
    attempts,       \* history: the page operations of the executor
    before,         \* history: the clone's files when the executor began
    exText,         \* extraction: the advisory text under study
    exStage,        \* extraction: which extractions have been made
    exDirect,       \* extraction: the result for the text itself
    exWrapped       \* extraction: the result for the text in a wrapper

vars ==
    << pc, outcome, dryRun, hasToken, store, documentation, strategy, snapshot, unread, walk,
       todo, idx, execOk, report, calls, storeOps, attempts, before,
       exText, exStage, exDirect, exWrapped >>

exVars == << exText, exStage, exDirect, exWrapped >>
execVars == << todo, idx, execOk, report, attempts, before >>

NotExtracted == [raised |-> FALSE, strategy |-> EmptyDict]

RunInit ==
    /\ pc = "start"
    /\ outcome = "running"
    /\ dryRun \in BOOLEAN
    /\ hasToken \in BOOLEAN
    /\ store \in { [files |-> EmptyTree, head |-> EmptyTree, remote |-> r] :
                   r \in InitialWikis }
    /\ documentation = NoneOut
    /\ strategy = EmptyDict
    /\ snapshot = EmptySnapshot
    /\ unread = {}
    /\ walk = <<>>
    /\ todo = <<>>
    /\ idx = 0
    /\ execOk = TRUE
    /\ report = <<>>
    /\ calls = <<>>
    /\ storeOps = <<>>
    /\ attempts = <<>>
    /\ before = EmptyTree

Init ==
    /\ RunInit
    /\ exText = <<>>
    /\ exStage = "off"
    /\ exDirect = NotExtracted
    /\ exWrapped = NotExtracted

\* the run ends
End(how) == pc' = "done" /\ outcome' = how

\* lines 708-736: arguments, environment, get_git_changes
GetChanges ==
    /\ pc = "start"
    /\ \E cfg \in {"ok", "norepo", "nokey"}, diff \in BOOLEAN :
          IF cfg # "ok" THEN End("failed")
          ELSE IF ~diff THEN End("neutral")
          ELSE pc' = "analyze1" /\ outcome' = outcome
    /\ UNCHANGED << dryRun, hasToken, store, documentation, strategy, snapshot, unread, walk,
                    calls, storeOps >>
    /\ UNCHANGED execVars
    /\ UNCHANGED exVars

\* a main that does not look at --dry-run
AnalyzeFirst_NoDryRun ==
    /\ pc = "analyze1"
    /\ \E rel \in RelevanceOutcomes, doc \in DocOutcomes :
          LET a == AnalyzeWithAi(rel, doc)
          IN  /\ calls' = calls \o a.calls
              /\ documentation' = a.result
              /\ IF a.raised THEN End("crash")
                 ELSE IF NoDocumentation(a.result) THEN End("neutral")
                 ELSE IF ~hasToken THEN End("printed")
                 ELSE pc' = "clone" /\ outcome' = outcome
    /\ UNCHANGED << dryRun, hasToken, store, strategy, snapshot, unread, walk, storeOps >>
    /\ UNCHANGED execVars
    /\ UNCHANGED exVars

\* lines 740-756: analyze_with_ai, then the dry-run and token exits
AnalyzeFirst ==
    /\ pc = "analyze1"
    /\ \E rel \in RelevanceOutcomes, doc \in DocOutcomes :
          LET a == AnalyzeWithAi(rel, doc)
          IN  /\ calls' = calls \o a.calls
              /\ documentation' = a.result
              /\ IF a.raised THEN End("crash")
                 ELSE IF NoDocumentation(a.result) THEN End("neutral")
                 ELSE IF dryRun THEN End("dry")
                 ELSE IF ~hasToken THEN End("printed")
                 ELSE pc' = "clone" /\ outcome' = outcome
    /\ UNCHANGED << dryRun, hasToken, store, strategy, snapshot, unread, walk, storeOps >>
    /\ UNCHANGED execVars
    /\ UNCHANGED exVars

\* lines 27-72 and 74-127 (clone_wiki), lines 762-764 (main)
CloneWiki ==
    /\ pc = "clone"
    /\ \E how \in {"cloned", "created", "not_created", "error"} :
          LET cl == <<[op |-> "clone", file |-> <<>>]>>
              home == [EmptyTree EXCEPT ![HomeFile] = File(HomeContent)]
              mk == cl \o << [op |-> "write", file |-> HomeFile],
                            [op |-> "push", file |-> HomeFile] >>
          IN  CASE how = "cloned" ->
                     /\ store' = [store EXCEPT !.files = store.remote,
                                               !.head = store.remote]
                     /\ storeOps' = storeOps \o cl
                     /\ pc' = "wiki" /\ outcome' = outcome
                [] how = "created" ->
                     \* the clone failed and the first push was accepted:
                     \* there was no wiki yet
                     /\ store.remote = EmptyTree
                     /\ store' = [files |-> home, head |-> home, remote |-> home]
                     /\ storeOps' = storeOps \o mk
                     /\ pc' = "wiki" /\ outcome' = outcome
                [] how = "not_created" ->
                     /\ store' = [store EXCEPT !.files = home, !.head = home]
                     /\ storeOps' = storeOps \o mk
                     /\ End("failed")
                [] OTHER ->
                     /\ store' = store
                     /\ storeOps' = storeOps \o cl
                     /\ End("failed")
    /\ UNCHANGED << dryRun, hasToken, documentation, strategy, snapshot, unread, walk, calls >>
    /\ UNCHANGED execVars
    /\ UNCHANGED exVars

\* lines 180-234 (analyze_wiki_structure), lines 768-769 (main)
AnalyzeWiki ==
    /\ pc = "wiki"
    /\ \E unreadable \in SUBSET {f \in FileNames : store.files[f].exists} :
          /\ Cardinality(unreadable) <= 1
          /\ snapshot' = AnalyzeWikiStructure(store.files, unreadable)
          /\ unread' = unreadable
          /\ walk' = SeqOfSet({f \in FileNames : store.files[f].exists})
    /\ storeOps' = Append(storeOps, [op |-> "scan", file |-> <<>>])
    /\ pc' = "plan"
    /\ UNCHANGED << outcome, dryRun, hasToken, store, documentation, strategy, calls >>
    /\ UNCHANGED execVars
    /\ UNCHANGED exVars

\* lines 280-372 (intelligent_documentation_strategy), lines 773-780 (main)
Plan ==
    /\ pc = "plan"
    /\ \E r \in StrategyOutcomes :
          LET res == PlannerResult(r)
          IN  /\ calls' = Append(calls, Call("strategy", <<>>, r))
              /\ strategy' = res.strategy
              /\ IF r.status = "raise" \/ res.raised THEN End("crash")
                 \* line 775: strategy.get on a value that is no dict
                 ELSE IF res.strategy.kind # "dict" THEN End("crash")
                 ELSE IF res.strategy.needs_documentation # "true" THEN End("neutral")
                 ELSE pc' = "analyze2" /\ outcome' = outcome
    /\ UNCHANGED << dryRun, hasToken, store, documentation, snapshot, unread, walk, storeOps >>
    /\ UNCHANGED execVars
    /\ UNCHANGED exVars

\* lines 784-792: analyze_with_ai again, then the two prints that index
\* the strategy
AnalyzeSecond ==
    /\ pc = "analyze2"
    /\ \E rel \in RelevanceOutcomes, doc \in DocOutcomes :
          LET a == AnalyzeWithAi(rel, doc)
          IN  /\ calls' = calls \o a.calls
              /\ documentation' = a.result
              /\ IF a.raised THEN End("crash")
                 ELSE IF NoDocumentation(a.result) THEN End("neutral")
                 \* KeyError at line 791 or 792
                 ELSE IF ~strategy.has_ds \/ strategy.action = "absent"
                         \/ ~strategy.has_targets THEN End("crash")
                 ELSE pc' = "exec" /\ outcome' = outcome
    /\ UNCHANGED << dryRun, hasToken, store, strategy, snapshot, unread, walk, storeOps >>
    /\ UNCHANGED execVars
    /\ UNCHANGED exVars

\* lines 395-417: the dispatch on the action
ExecBegin ==
    /\ pc = "exec"
    /\ before' = store.files
    /\ attempts' = <<>>
    /\ idx' = 1
    /\ LET tp == strategy.target_pages
       IN  IF strategy.action \notin KnownActions
           THEN todo' = <<>> /\ execOk' = FALSE
           ELSE IF strategy.action = "update_multiple_pages"
           THEN todo' = tp /\ execOk' = TRUE
           \* target_pages[0]: IndexError on an empty list, caught at 419
           ELSE IF tp = <<>>
           THEN todo' = <<>> /\ execOk' = FALSE
           ELSE todo' = <<tp[1]>> /\ execOk' = TRUE
    /\ pc' = IF todo' = <<>> THEN "finish" ELSE "page"
    /\ UNCHANGED << outcome, dryRun, hasToken, store, documentation, strategy,
                    snapshot, unread, walk, report, calls, storeOps >>
    /\ UNCHANGED exVars

\* one page of lines 399-413; an exception leaves the loop (line 419)
ExecPage ==
    /\ pc = "page"
    /\ idx <= Len(todo)
    /\ \E rd \in ReadOutcomes, m \in MergeOutcomes, w \in WriteOutcomes :
          LET r == PageStep(strategy.action, store, todo[idx], documentation.text,
                            strategy, rd, m, w)
          IN  /\ store' = r.st
              /\ calls' = calls \o r.calls
              /\ storeOps' = storeOps \o r.ops
              /\ attempts' = Append(attempts,
                                [page |-> todo[idx], ok |-> r.ok, raised |-> r.raised,
                                 merged |-> r.merged,
                                 read |-> rd,
                                 merge |-> IF r.merged THEN m.status ELSE "unused",
                                 mergeText |-> IF r.merged THEN m.text ELSE <<>>,
                                 write |-> IF r.raised THEN "unused" ELSE w])
              /\ execOk' = (execOk /\ r.ok)
              /\ idx' = idx + 1
              /\ pc' = IF r.raised \/ idx = Len(todo) THEN "finish" ELSE "page"
    /\ UNCHANGED << outcome, dryRun, hasToken, documentation, strategy, snapshot, unread, walk,
                    todo, report, before >>
    /\ UNCHANGED exVars

\* lines 794-802
Finish ==
    /\ pc = "finish"
    /\ IF ~execOk
       THEN End("failed") /\ report' = report
       \* the default target_pages[0] is evaluated before .get is called
       ELSE IF strategy.target_pages = <<>>
       THEN End("crash") /\ report' = report
       ELSE /\ End("applied")
            /\ report' = IF strategy.has_pr /\ strategy.has_primary
                         THEN strategy.primary_page
                         ELSE strategy.target_pages[1]
    /\ UNCHANGED << dryRun, hasToken, store, documentation, strategy, snapshot, unread, walk,
                    todo, idx, execOk, calls, storeOps, attempts, before >>
    /\ UNCHANGED exVars

Next ==
    \/ GetChanges
    \/ AnalyzeFirst
    \/ CloneWiki
    \/ AnalyzeWiki
    \/ Plan
    \/ AnalyzeSecond
    \/ ExecBegin
    \/ ExecPage
    \/ Finish

Spec == Init /\ [][Next]_vars

\* ---------------------------------------------- the extraction on its own
\* The Strategy Planner's extraction applied to every advisory text of at
\* most MaxLen lexemes, first as it is and then inside a wrapper.
ExtractAlphabet == {"FENCE", "json", "NL", "SP", "LB", "RB", "nd_t", "ds_upd", "NUM"}

Texts == UNION { [1..n -> ExtractAlphabet] : n \in 0..MaxLen }

Wrappers == {"labeled", "inline", "unlabeled", "padded"}

Wrap(w, t) ==
    CASE w = "labeled" -> <<"FENCE", "json", "NL">> \o t \o <<"NL", "FENCE">>
      [] w = "inline" -> <<"FENCE", "json", "SP">> \o t \o <<"SP", "FENCE">>
      [] w = "unlabeled" -> <<"FENCE", "NL">> \o t \o <<"NL", "FENCE">>
      [] OTHER -> <<"SP", "NL">> \o t \o <<"NL">>

ExtractInit ==
    /\ pc = "off"
    /\ outcome = "running"
    /\ dryRun = FALSE
    /\ hasToken = FALSE
    /\ store = [files |-> EmptyTree, head |-> EmptyTree, remote |-> EmptyTree]
    /\ documentation = NoneOut
    /\ strategy = EmptyDict
    /\ snapshot = EmptySnapshot
    /\ unread = {}
    /\ walk = <<>>
    /\ todo = <<>>
    /\ idx = 0
    /\ execOk = TRUE
    /\ report = <<>>
    /\ calls = <<>>
    /\ storeOps = <<>>
    /\ attempts = <<>>
    /\ before = EmptyTree
    /\ exText \in Texts
    /\ exStage = "text"
    /\ exDirect = NotExtracted
    /\ exWrapped = NotExtracted

runVars ==
    << pc, outcome, dryRun, hasToken, store, documentation, strategy, snapshot, unread, walk,
       todo, idx, execOk, report, calls, storeOps, attempts, before >>

\* lines 332-372 on the text itself
ExtractDirect ==
    /\ exStage = "text"
    /\ exDirect' = PlannerResult(TextOut(exText))
    /\ exStage' = "direct"
    /\ UNCHANGED << exText, exWrapped >>
    /\ UNCHANGED runVars

\* lines 332-372 on the text inside a wrapper
ExtractWrapped ==
    /\ exStage = "direct"
    /\ \E w \in Wrappers :
          /\ exWrapped' = PlannerResult(TextOut(Wrap(w, exText)))
          /\ exStage' = w
    /\ UNCHANGED << exText, exDirect >>
    /\ UNCHANGED runVars

ExtractNext == ExtractDirect \/ ExtractWrapped

SpecExtract == ExtractInit /\ [][ExtractNext]_vars

\* ------------------------------------------- the snapshot builder on its own
\* analyze_wiki_structure applied to wikis that have directories.  os.walk
\* goes through the whole tree and line 197 keeps the bare file name; line
\* 202 then opens that name in the top directory.
\* most files in the directories below the top one
MaxExtra == 2

\* files of the top directory
SnapNames == {HomeFile, <<"A">>, <<"X", "-", "Y">>}

\* what a page may hold
SnapContents ==
    {OldB, OldA, <<"POST /api/users">>, <<"CREATE TABLE", "data pipeline">>}

SnapWikis ==
    { [f \in FileNames |-> IF f \in SnapNames THEN g[f] ELSE NoFile] :
      g \in [SnapNames -> {NoFile} \cup {File(c) : c \in SnapContents}] }

\* the names of the files below the top directory, in walk order
ExtraWalks == UNION { [1..n -> SnapNames] : n \in 0..MaxExtra }

\* lines 192-230 for the listing wk: a name that is no file of the top
\* directory cannot be opened and is skipped like any unreadable file
ScanWiki(files, wk, unreadable) ==
    BuildSnapshot(EmptySnapshot, files, wk,
                  unreadable \cup {f \in FileNames : ~files[f].exists})

SnapInit ==
    /\ pc = "snap"
    /\ outcome = "running"
    /\ dryRun = FALSE
    /\ hasToken = TRUE
    /\ \E w \in SnapWikis : store = [files |-> w, head |-> w, remote |-> w]
    /\ documentation = NoneOut
    /\ strategy = EmptyDict
    /\ snapshot = EmptySnapshot
    /\ unread = {}
    /\ \E x \in ExtraWalks :
          walk = SeqOfSet({f \in FileNames : store.files[f].exists}) \o x
    /\ todo = <<>>
    /\ idx = 0
    /\ execOk = TRUE
    /\ report = <<>>
    /\ calls = <<>>
    /\ storeOps = <<>>
    /\ attempts = <<>>
    /\ before = EmptyTree
    /\ exText = <<>>
    /\ exStage = "off"
    /\ exDirect = NotExtracted
    /\ exWrapped = NotExtracted

\* lines 180-230
SnapBuild ==
    /\ pc = "snap"
    /\ \E unreadable \in SUBSET {f \in FileNames : store.files[f].exists} :
          /\ Cardinality(unreadable) <= 1
          /\ snapshot' = ScanWiki(store.files, walk, unreadable)
          /\ unread' = unreadable
    /\ pc' = "snapped"
    /\ UNCHANGED << outcome, dryRun, hasToken, store, documentation, strategy,
                    walk, calls, storeOps >>
    /\ UNCHANGED execVars
    /\ UNCHANGED exVars

SnapNext == SnapBuild

SpecSnapshot == SnapInit /\ [][SnapNext]_vars

\* ================================================================ claims
\* execute_intelligent_documentation has returned to main
Executed == pc = "finish"

Count(kind) == Cardinality({k \in DOMAIN calls : calls[k].kind = kind})

MergedAttempts == {i \in DOMAIN attempts : attempts[i].merged}

\* C1 (as claimed): under update_multiple_pages an update is attempted for
\* every target page, in list order, whatever happened to the earlier
\* ones, and the result is success exactly when every update succeeded.
C1_EveryPageAttempted ==
    (Executed /\ strategy.action = "update_multiple_pages") =>
        /\ Len(attempts) = Len(strategy.target_pages)
        /\ \A i \in DOMAIN attempts : attempts[i].page = strategy.target_pages[i]
        /\ execOk <=> \A i \in DOMAIN attempts : attempts[i].ok

\* C2 (as claimed): update_multiple_pages over ["A","B"], the write of A
\* succeeds and the write of B fails: A holds its new text, in the clone
\* and in the wiki (no rollback), B holds exactly what it held before, and
\* the result is failure.
C2_FailedWriteLeavesPage ==
    ( /\ Executed
      /\ strategy.action = "update_multiple_pages"
      /\ strategy.target_pages = <<TitleA, TitleB>>
      /\ Len(attempts) = 2
      /\ attempts[1].ok
      /\ attempts[2].merge = "unused" \/ attempts[2].mergeText # <<>>
      /\ attempts[2].write # "ok" ) =>
        /\ store.files[WriteFile(TitleB)] = before[WriteFile(TitleB)]
        /\ ~execOk
        /\ store.files[WriteFile(TitleA)] # before[WriteFile(TitleA)]
        /\ store.remote[WriteFile(TitleA)] = store.files[WriteFile(TitleA)]

\* C3 (as claimed): update_existing_page on a page that exists: when the
\* merge call returns no text the action fails and the page holds exactly
\* what it held before; when the merge and the write succeed the page
\* holds the merge result verbatim.
C3_MergeFailureLeavesPage ==
    ( /\ Executed
      /\ strategy.action = "update_existing_page"
      /\ Len(attempts) = 1
      /\ attempts[1].merged ) =>
        LET f == WriteFile(attempts[1].page)
        IN  /\ attempts[1].merge = "none" =>
                  ~execOk /\ store.files[f] = before[f]
            /\ (attempts[1].merge = "text" /\ attempts[1].ok) =>
                  store.files[f] = File(attempts[1].mergeText)

\* C4: an update of a page that the store does not hold makes no merge
\* call, fails only if the write itself fails, and stores the content that
\* create_new_page stores for the same page, strategy and body.
C4_MissingPageIsCreated ==
    \A i \in DOMAIN attempts :
        LET a == attempts[i]
        IN  ( /\ strategy.action \in {"update_existing_page", "update_multiple_pages"}
              /\ ~before[ReadFile(a.page)].exists
              /\ \A j \in 1..(i - 1) : WriteFile(attempts[j].page) # ReadFile(a.page) ) =>
                /\ ~a.merged
                /\ ~a.raised
                /\ a.ok <=> a.write = "ok"
                /\ \A k \in DOMAIN calls :
                      calls[k].kind = "merge" => calls[k].page # a.page
                /\ a.write # "open_fail" =>
                      store.files[WriteFile(a.page)] =
                          File(NewPageContent(a.page, documentation.text, strategy))
                /\ a.ok =>
                      store.remote[WriteFile(a.page)] =
                          File(NewPageContent(a.page, documentation.text, strategy))

C4_Witness ==
    /\ Executed
    /\ strategy.action = "update_existing_page"
    /\ Len(attempts) = 1
    /\ attempts[1].page = TitleA
    /\ ~before[ReadFile(TitleA)].exists
    /\ attempts[1].read = "ok"
    /\ attempts[1].ok
    /\ store.remote[WriteFile(TitleA)].exists

\* a strategy that carries an action and a list of target pages
WellFormed(s) ==
    s.kind = "dict" /\ s.has_ds /\ s.action # "absent" /\ s.has_targets

\* C5 (as claimed): whatever the advisory text, the extraction raises
\* nothing and returns a strategy with an action and a target-page list.
C5_ExtractionAlwaysWellFormed ==
    exStage # "text" => ~exDirect.raised /\ WellFormed(exDirect.strategy)

\* C6 (as claimed): when the Planner's advisory call returns nothing or
\* an empty text, the Planner returns the fallback strategy and the run
\* goes on.
C6_PlannerSurvivesFailedCall ==
    ( /\ calls # <<>>
      /\ calls[Len(calls)].kind = "strategy"
      /\ calls[Len(calls)].got \in {"none", "empty"} ) =>
        /\ outcome = "running"
        /\ pc = "analyze2"
        /\ strategy.action = "create_new_page"
        /\ strategy.target_pages = <<FallbackTitle>>

\* the text is not JSON once its fences are removed
Unparseable(t) == ~JsonValid(CleanResponse(t))

IsFallbackWith(s, reasoning) ==
    /\ s.kind = "dict"
    /\ s.needs_documentation = "true"
    /\ s.has_ds /\ s.action = "create_new_page"
    /\ s.has_targets /\ Len(s.target_pages) = 1
    /\ s.target_pages[1] = <<"Data", "-", "Changes", "-", "Fallback">>
    /\ s.content_type = "mixed"
    /\ s.priority = "medium"
    /\ s.reasoning = reasoning

\* C7 (as claimed): an advisory text that cannot be parsed gives the fixed
\* fallback, whose reasoning is "fallback: could not interpret advisory
\* response".
C7_FallbackAsClaimed ==
    (exStage # "text" /\ Unparseable(exText)) =>
        IsFallbackWith(exDirect.strategy,
                       "fallback: could not interpret advisory response")

\* C7 (amended): an advisory text that cannot be parsed gives the fixed
\* fallback: needs_documentation true, create_new_page, the one target
\* page Data-Changes-Fallback, content type mixed, priority medium, and
\* the reasoning "Fallback analysis - assuming documentation needed".
C7_FallbackIsFixed ==
    /\ (exStage # "text" /\ Unparseable(exText)) =>
          /\ ~exDirect.raised
          /\ IsFallbackWith(exDirect.strategy,
                            "Fallback analysis - assuming documentation needed")
    /\ (exStage \in Wrappers /\ Unparseable(Wrap(exStage, exText))) =>
          /\ ~exWrapped.raised
          /\ IsFallbackWith(exWrapped.strategy,
                            "Fallback analysis - assuming documentation needed")

C7_Witness ==
    /\ exStage = "direct"
    /\ exText = <<"json", "SP", "json">>
    /\ exDirect.strategy.target_pages = <<FallbackTitle>>

\* C8: for a text that is JSON, the extraction from the text inside a
\* labelled fence equals the extraction from the text, and the extraction
\* from the text is the value json.loads gives for it.
C8_FenceIsTransparent ==
    (exStage = "labeled" /\ JsonValid(exText)) =>
        /\ exWrapped = exDirect
        /\ ~exDirect.raised
        /\ exDirect.strategy = JsonLoads(exText)

C8_Witness ==
    /\ exStage = "labeled"
    /\ exText = <<"LB", "nd_t", "ds_upd", "RB">>
    /\ exWrapped.strategy.action = "update_existing_page"
    /\ exWrapped.strategy.target_pages = <<TitleA>>

\* C9 (as claimed): a run makes at most one relevance call, one strategy
\* call and one body-generation call.
C9_OneCallPerStage ==
    /\ Count("relevance") <= 1
    /\ Count("strategy") <= 1
    /\ Count("documentation") <= 1

\* C9 (amended): a run makes the calls relevance, documentation, strategy,
\* relevance, documentation and then one merge call for each page
\* operation that found its page, in this order and no others: at most two
\* relevance calls, two body-generation calls and one strategy call; a
\* call that raised, or a relevance, body or strategy call that returned
\* nothing, is the last call of the run.
C9_CallBudget ==
    /\ Count("relevance") <= 2
    /\ Count("documentation") <= 2
    /\ Count("documentation") <= Count("relevance")
    /\ Count("strategy") <= 1
    /\ Count("merge") = Cardinality(MergedAttempts)
    /\ Len(attempts) <= Len(strategy.target_pages)
    /\ \A k \in DOMAIN calls :
          /\ calls[k].kind = "relevance" => k \in {1, 4}
          /\ calls[k].kind = "documentation" => k \in {2, 5}
          /\ calls[k].kind = "strategy" => k = 3
          /\ calls[k].kind = "merge" => k >= 6
          /\ k < Len(calls) =>
                /\ calls[k].got # "raise"
                /\ calls[k].got = "none" => calls[k].kind = "merge"
    /\ outcome = "applied" =>
          Count("relevance") = 2 /\ Count("documentation") = 2 /\ Count("strategy") = 1

C9_Witness ==
    /\ outcome = "applied"
    /\ strategy.action = "update_multiple_pages"
    /\ Count("merge") = 2
    /\ Len(calls) = 7

\* the relevance calls that were answered NOT_RELEVANT
NotRelevantCalls ==
    {k \in DOMAIN calls : calls[k].kind = "relevance" /\ calls[k].got = "not_relevant"}

\* C10 (as claimed): when a relevance response contains NOT_RELEVANT the
\* run has stopped with "no documentation needed" and has made no page
\* store call at all.
C10_NotRelevantNoStoreCall ==
    NotRelevantCalls # {} =>
        pc = "done" /\ outcome = "neutral" /\ storeOps = <<>>

\* C10 (amended): when a relevance response contains NOT_RELEVANT the run
\* stops with "no documentation needed" and the executor writes no page;
\* if it is the first relevance response of the run no page store call was
\* made; if it is the second, the wiki was already cloned (or created, with
\* its Home page) and scanned.
C10_NotRelevantStops ==
    NotRelevantCalls # {} =>
        /\ pc = "done"
        /\ outcome = "neutral"
        /\ attempts = <<>>
        /\ \A j \in DOMAIN storeOps :
              storeOps[j].op \in {"clone", "scan"} \/ storeOps[j].file = HomeFile
        /\ 1 \in NotRelevantCalls => storeOps = <<>>
        /\ \/ store.remote \in InitialWikis
           \/ store.remote = [EmptyTree EXCEPT ![HomeFile] = File(HomeContent)]

C10_Witness ==
    /\ pc = "done"
    /\ outcome = "neutral"
    /\ NotRelevantCalls = {4}
    /\ storeOps # <<>>

\* the last advisory call was a body generation that gave the literal
\* sentinel, or nothing
BodyAbsent ==
    /\ calls # <<>>
    /\ calls[Len(calls)].kind = "documentation"
    /\ \/ calls[Len(calls)].got = "none"
       \/ /\ calls[Len(calls)].got = "text"
          /\ documentation.text = <<"NO_DOCUMENTATION_NEEDED">>

WriteOps == {j \in DOMAIN storeOps : storeOps[j].op = "write"}

\* C11 (as claimed): when the body generation gives the sentinel
\* NO_DOCUMENTATION_NEEDED or nothing, at the first or at the second
\* place where main generates the body, the run ends without an error,
\* the executor was never entered and no page was written.
C11_NoBodyNoWrite ==
    BodyAbsent =>
        /\ pc = "done"
        /\ outcome = "neutral"
        /\ attempts = <<>>
        /\ WriteOps = {}

\* C11 (amended): when the body generation gives the sentinel or nothing
\* the run ends without an error and the executor was never entered; at
\* the first place no page store call was made at all; at the second the
\* only page that can have been written is the Home page of a wiki that
\* clone_wiki created.
C11_NoBodyStops ==
    BodyAbsent =>
        /\ pc = "done"
        /\ outcome = "neutral"
        /\ attempts = <<>>
        /\ before = EmptyTree
        /\ \A j \in WriteOps : storeOps[j].file = HomeFile
        /\ Count("documentation") = 1 => storeOps = <<>>
        /\ \/ store.remote \in InitialWikis
           \/ store.remote = [EmptyTree EXCEPT ![HomeFile] = File(HomeContent)]

C11_Witness ==
    /\ BodyAbsent
    /\ Count("documentation") = 2
    /\ documentation.text = <<"NO_DOCUMENTATION_NEEDED">>
    /\ outcome = "neutral"
    /\ storeOps # <<>>

\* the run ended at the dry-run exit of line 750
DryExit == pc = "done" /\ outcome = "dry"

\* C12 (as claimed): in dry mode the run makes the strategy decision and
\* generates the body, never enters the executor, writes no page, and
\* prints the generated body.
C12_DryRunPlansAndPrints ==
    DryExit =>
        /\ Count("strategy") = 1
        /\ Count("documentation") >= 1
        /\ attempts = <<>>
        /\ WriteOps = {}
        /\ Truthy(documentation)

\* C12 (amended): in dry mode the run makes one relevance call and one body
\* generation, and no strategy call: it never clones the wiki, never enters
\* the executor and makes no page store call.  It prints the generated
\* body, which is a text other than the sentinel; without a body it ends
\* as "no documentation needed".
C12_DryRunPrintsOnly ==
    /\ dryRun =>
          /\ Count("strategy") = 0
          /\ Count("merge") = 0
          /\ Count("relevance") <= 1
          /\ Count("documentation") <= 1
          /\ storeOps = <<>>
          /\ attempts = <<>>
          /\ store.files = EmptyTree
          /\ outcome \in {"running", "neutral", "dry", "failed", "crash"}
    /\ DryExit =>
          /\ dryRun
          /\ Len(calls) = 2
          /\ calls[1].kind = "relevance" /\ calls[1].got = "text"
          /\ calls[2].kind = "documentation" /\ calls[2].got = "text"
          /\ Truthy(documentation)
          /\ Strip(documentation.text) # <<"NO_DOCUMENTATION_NEEDED">>
    /\ ( /\ dryRun
         /\ pc = "done"
         /\ Len(calls) = 2
         /\ calls[2].got = "text"
         /\ Strip(documentation.text) # <<"NO_DOCUMENTATION_NEEDED">> ) =>
          outcome = "dry"

C12_Witness ==
    /\ DryExit
    /\ hasToken
    /\ documentation.text = DocBody

\* C13 (as claimed): a run that is not a dry run and has its token ends,
\* whatever the advisory calls and the page store answer, as "no
\* documentation needed", as "documentation applied" or as "failed": never
\* with an exception that nothing handles.
C13_ThreeOutcomes ==
    (pc = "done" /\ ~dryRun /\ hasToken) =>
        outcome \in {"neutral", "applied", "failed"}

\* main has called execute_intelligent_documentation
InExecutor == pc \in {"exec", "page", "finish"}

\* C14 (as claimed): a strategy that reaches the executor says
\* needs_documentation, names an action and has at least one target page.
C14_TargetsNeverEmpty ==
    InExecutor =>
        /\ strategy.needs_documentation = "true"
        /\ strategy.action # "absent"
        /\ strategy.target_pages # <<>>

\* execute_intelligent_documentation has been called
Entered == idx >= 1

\* C15: when the action of the strategy is none of the four actions, the
\* executor returns failure without a page operation: no page is read or
\* written, no advisory call is made, and the run ends as "failed".
C15_UnknownActionFails ==
    ( /\ Entered
      /\ strategy.action \notin {"create_new_page", "update_existing_page",
                                 "append_to_page", "update_multiple_pages"} ) =>
        /\ pc \in {"finish", "done"}
        /\ pc = "done" => outcome = "failed"
        /\ ~execOk
        /\ todo = <<>>
        /\ attempts = <<>>
        /\ Len(calls) = 5
        /\ Count("merge") = 0
        /\ storeOps[Len(storeOps)].op = "scan"
        /\ \A j \in DOMAIN storeOps : storeOps[j].op # "read"
        /\ store.files = before

C15_Witness ==
    /\ Entered
    /\ strategy.action = "delete_page"
    /\ strategy.target_pages = <<TitleA>>
    /\ before[ReadFile(TitleA)].exists
    /\ pc = "done"
    /\ outcome = "failed"

\* the store calls of the executor: those after the scan of the wiki
ExecutorOps ==
    {j \in DOMAIN storeOps :
        \E k \in 1..(j - 1) : storeOps[k].op = "scan"}

\* C16 (as claimed): append_to_page makes no advisory call and writes one
\* page, the first target page: what the page held before (a header line
\* when there was no page), then the dated section with the summary of
\* the strategy and the body.  What the page held is kept as a prefix and
\* no other page is written.
C16_AppendKeepsPage ==
    ( /\ Executed
      /\ strategy.action = "append_to_page"
      /\ strategy.target_pages # <<>>
      /\ before[WriteFile(strategy.target_pages[1])].exists =>
            before[WriteFile(strategy.target_pages[1])].content # <<>> ) =>
        LET t == strategy.target_pages[1]
            f == WriteFile(t)
            old == IF before[f].exists THEN before[f].content ELSE <<"#">> \o t
            new == old \o AppendSection(documentation.text, strategy)
        IN  /\ Len(attempts) = 1
            /\ attempts[1].page = t
            /\ Count("merge") = 0
            /\ Cardinality({j \in ExecutorOps : storeOps[j].op = "write"}) = 1
            /\ \A j \in ExecutorOps :
                  storeOps[j].op \in {"write", "push"} => storeOps[j].file = f
            /\ \A g \in FileNames : g # f => store.files[g] = before[g]
            /\ attempts[1].write # "open_fail" => store.files[f] = File(new)
            /\ attempts[1].write = "open_fail" => store.files[f] = before[f]
            /\ attempts[1].ok => store.remote[f] = File(new)

\* analyze_wiki_structure has returned
Snapped == pc = "snapped"

\* the files of the top directory that were read
ReadPages == {f \in FileNames : store.files[f].exists /\ f \notin unread}

InIndex(list, n) == \E k \in 1..Len(list) : list[k] = n

\* C17: a file that cannot be read does not stop the build: the snapshot
\* has no entry for it and has an entry for every other page, with the
\* content of the page and its three flags, and the page is in a category
\* list exactly when its flag for that category is set.
C17_UnreadablePageSkipped ==
    Snapped =>
        /\ DOMAIN snapshot.pages = {PageNameOf(f) : f \in ReadPages}
        /\ \A f \in ReadPages :
              LET n == PageNameOf(f)
                  c == store.files[f].content
                  i == snapshot.pages[n]
              IN  /\ i.filename = f
                  /\ i.content = c
                  /\ i.length = Len(c)
                  /\ i.has_schema_content <=> \E k \in 1..Len(c) : c[k] = "CREATE TABLE"
                  /\ i.has_api_content <=> \E k \in 1..Len(c) : c[k] = "POST /api/users"
                  /\ i.has_data_flow_content <=> \E k \in 1..Len(c) : c[k] = "data pipeline"
                  /\ i.has_schema_content <=> InIndex(snapshot.schema_pages, n)
                  /\ i.has_api_content <=> InIndex(snapshot.api_pages, n)
                  /\ i.has_data_flow_content <=> InIndex(snapshot.data_flow_pages, n)

C17_Witness ==
    /\ Snapped
    /\ unread = {<<"A">>}
    /\ store.files[HomeFile].exists
    /\ store.files[<<"X", "-", "Y">>].content = <<"CREATE TABLE", "data pipeline">>
    /\ InIndex(snapshot.schema_pages, <<"X", " ", "Y">>)
    /\ <<"Home">> \in DOMAIN snapshot.pages

NoRepeat(list) ==
    \A j, k \in 1..Len(list) : list[j] = list[k] => j = k

\* C18 (as claimed): in the snapshot a page name is in schema_pages (in
\* api_pages, in data_flow_pages) exactly when it is a key of pages whose
\* flag for that category is set, no name is in a list twice, and a wiki
\* whose only page is Home with the text Welcome has three empty lists.
C18_IndicesMatchFlags ==
    Snapped =>
        /\ \A n \in DOMAIN snapshot.pages :
              /\ InIndex(snapshot.schema_pages, n)
                    <=> snapshot.pages[n].has_schema_content
              /\ InIndex(snapshot.api_pages, n)
                    <=> snapshot.pages[n].has_api_content
              /\ InIndex(snapshot.data_flow_pages, n)
                    <=> snapshot.pages[n].has_data_flow_content
        /\ \A k \in 1..Len(snapshot.schema_pages) :
              snapshot.schema_pages[k] \in DOMAIN snapshot.pages
        /\ \A k \in 1..Len(snapshot.api_pages) :
              snapshot.api_pages[k] \in DOMAIN snapshot.pages
        /\ \A k \in 1..Len(snapshot.data_flow_pages) :
              snapshot.data_flow_pages[k] \in DOMAIN snapshot.pages
        /\ NoRepeat(snapshot.schema_pages)
        /\ NoRepeat(snapshot.api_pages)
        /\ NoRepeat(snapshot.data_flow_pages)
        /\ (\A f \in FileNames :
               store.files[f] = IF f = HomeFile THEN File(<<"Welcome">>) ELSE NoFile) =>
              /\ snapshot.schema_pages = <<>>
              /\ snapshot.api_pages = <<>>
              /\ snapshot.data_flow_pages = <<>>

\* C19 (as claimed): when the run ends as "documentation applied", the
\* page named in the success message is a target page of the strategy
\* that the executor wrote in this run.
C19_ReportNamesWrittenPage ==
    outcome = "applied" =>
        /\ \E i \in DOMAIN attempts : attempts[i].ok /\ attempts[i].page = report
        /\ \E k \in 1..Len(strategy.target_pages) : strategy.target_pages[k] = report
        /\ \E j \in DOMAIN storeOps :
              storeOps[j].op = "write" /\ storeOps[j].file = WriteFile(report)

\* C20 (as claimed): after create_or_update_page(t, x) has returned
\* success, get_page(t) returns x: here for the page that
\* update_existing_page has just written, x being the merged text, or the
\* new page when there was nothing to merge with.
C20_ReadAfterWrite ==
    ( /\ Executed
      /\ strategy.action = "update_existing_page"
      /\ Len(attempts) = 1
      /\ attempts[1].ok ) =>
        LET t == attempts[1].page
            x == IF attempts[1].merged THEN attempts[1].mergeText
                 ELSE NewPageContent(t, documentation.text, strategy)
        IN  GetPage(store.files, t, "ok") = TextOut(x)

====
